---- MODULE Spec2Model ----
(***************************************************************************)
(* Protothreads: a function body written between PROTO_BEGIN and PROTO_END *)
(* that returns at PROTO_YIELD / PROTO_WAIT / PROTO_SLEEP and resumes at   *)
(* the same place on its next call (src/protothread.h), and the            *)
(* ProtoThread wrapper that owns a private copy of the body's variables    *)
(* (src/protothread.cpp).                                                  *)
(*                                                                         *)
(* A body is  prelude; PROTO_BEGIN; S0; P1; S1; ...; Pn; Sn; PROTO_END     *)
(* where each Pk is one of the three suspension macros and each Sk is an   *)
(* ordinary segment of code.  One call of the body is one atomic step: the *)
(* macros are expanded and interpreted statement by statement by Exec.     *)
(* ProtoState.time is a float in the source; here it counts clock ticks,   *)
(* rounded as a float of Mantissa significant bits rounds them.            *)
(***************************************************************************)
EXTENDS Integers, Sequences, FiniteSets, TLC

\* ------------------------------------------------------------------ bounds
MaxPoints == 2          \* suspension points in a body
MaxSleep == 1           \* largest PROTO_SLEEP duration, in ticks
MaxElapsed == 2         \* largest Timer::GetElapsedTime() result, in ticks
MaxCalls == 5           \* calls made on one instance driven alone
MaxPairCalls == 2       \* calls made on each of two interleaved instances
MaxExtCalls == 2        \* calls made on an instance whose state is also written
MaxRetCalls == 3        \* calls made on an instance whose body has return statements
MaxResetCalls == 3      \* calls made on an instance that its owner may restart
MaxWrites == 1          \* writes of ProtoState.state by its owner
MaxThreads == 3         \* ProtoThread objects constructed
MaxSize == 1            \* bytes in the caller's variables
MaxDeletes == 2         \* deletes of one buffer that are followed

\* Significant bits of a float, the type of ProtoState.time.
Mantissa == 24

\* A sleep so long that a float holding it no longer registers a clock
\* increment of up to MaxElapsed ticks.
LongSleep == (2 ^ (Mantissa + 1)) * MaxElapsed

\* LINENO of the line before the first suspension macro of the body.
FirstLine == 10

Inst == {1, 2}

Yield == [kind |-> "yield", t |-> 0]
Wait == [kind |-> "wait", t |-> 0]
Sleep(t) == [kind |-> "sleep", t |-> t]

\* A statement of the body that is no macro:  if (c) return <value>;
Ret == [kind |-> "return", t |-> 0]

Points == {Yield, Wait} \cup {Sleep(t) : t \in 0..MaxSleep}

RECURSIVE SeqsUpTo(_, _)
SeqsUpTo(S, n) ==
    IF n = 0 THEN {<<>>}
    ELSE LET shorter == SeqsUpTo(S, n - 1)
         IN  shorter \cup {Append(s, x) : s \in {q \in shorter : Len(q) = n - 1}, x \in S}

Bodies == SeqsUpTo(Points, MaxPoints)

\* The bodies two interleaved instances run: every sleep lasts MaxSleep.
PairBodies == SeqsUpTo({Yield, Wait, Sleep(MaxSleep)}, MaxPoints)

\* The bodies two callers of one shared ProtoState run: no clock is read.
SharedBodies == SeqsUpTo({Yield, Wait}, MaxPoints)

\* Bodies of yields and sleeps only, short sleeps and long ones.
LiveBodies ==
    SeqsUpTo({Yield, Sleep(0), Sleep(MaxSleep), Sleep(LongSleep)}, MaxPoints + 1)

\* Bodies that also leave through a return statement of their own.
RetBodies == SeqsUpTo({Yield, Wait, Sleep(0), Sleep(MaxSleep), Ret}, MaxPoints)

VARIABLES
    body,       \* the suspension points P1..Pn of the function body
    live,       \* the instances the driver calls
    limit,      \* calls the driver makes on each instance
    ps,         \* ps[i]: the ProtoState of instance i
    trace,      \* trace[i]: the segments instance i has executed, in order
    ret,        \* ret[i]: what the latest call returned ("none" before any)
    calls,      \* calls[i]: calls made on instance i
    pre,        \* pre[i]: executions of the code before PROTO_BEGIN
    entry,      \* entry[i]: ProtoState.state at entry of the latest call
    ran,        \* ran[i]: the segments the latest call executed, in order
    log,        \* log[i][p]: per evaluation of point p, the input it saw
    susp,       \* susp[i][p]: times point p returned false
    writes,     \* writes[i]: writes of ps[i].state by its owner
    last,       \* last[i]: the point that returned false most recently, or 0
    form,       \* how the body gets its ProtoState: "param" or "static"
    since,      \* since[i]: once the owner has written ps[i], the ProtoState
                \* as it was then and, after a restart, the inputs and results
                \* of the calls since
    mem,        \* mem[a]: the buffer at address a, if one is allocated there
    obj,        \* obj[o]: the ProtoThread object o, once constructed
    own,        \* own[o]: how o was constructed, and the bytes it was
                \* given as o itself has rewritten them
    rel,        \* rel[a]: times the buffer allocated at a has been deleted
    beat        \* the parity of the calls made by the driver that never stops

run == <<body, live, limit, ps, trace, ret, calls, pre, entry, ran, log, susp,
        writes, last, form, since>>

heap == <<mem, obj, own, rel>>

vars == <<run, heap, beat>>

\* ------------------------------------------------------------ ProtoState
\* ProtoState(void) { state = 0; time = 0.0f; yield = false; }
NewProtoState == [state |-> 0, time |-> 0, yield |-> FALSE]

\* int(__LINE__) of the p-th suspension macro; PROTO_END is macro n+1.
LINENO(p) == FirstLine + p

EndLine(b) == LINENO(Len(b) + 1)

\* Variant: the function declares PROTO_STATE, one state for all callers.
SlotStatic(i) == 1

\* Variant: every caller has a ProtoState of its own.
SlotOwn(i) == i

\* The ProtoState a call by i works on.  The function either takes it as
\* its ps parameter, bool myfunc (ProtoState* ps, void* vars), one per
\* instance, or declares it itself with PROTO_STATE:
\* static ProtoState s; static ProtoState* ps = &s;
Slot(i) == IF form = "static" THEN 1 ELSE i

\* One instance as a call sees it.
Machine(i) ==
    [ps |-> ps[Slot(i)], trace |-> trace[i], ret |-> ret[i], pre |-> pre[i],
     ran |-> <<>>, log |-> log[i], susp |-> susp[i], last |-> last[i]]

\* --------------------------------------------------------- the statements
\* Code placed before PROTO_BEGIN.
Prelude(m) == [m EXCEPT !.pre = @ + 1]

\* Variant: PROTO_BEGIN leaves the flag as it finds it.
BeginKeep(m) == m

\* PROTO_BEGIN: ps->yield = false;
BeginReset(m) == [m EXCEPT !.ps.yield = FALSE]

\* The points of b that carry a case label: the suspension macros.
Labels(b) == {p \in 1..Len(b) : b[p].kind # "return"}

\* Variant: the switch has a default label next to case 0.
DispatchDefault(s, b) ==
    IF \E p \in Labels(b) : s = LINENO(p)
    THEN [at |-> "case", p |-> CHOOSE p \in Labels(b) : s = LINENO(p)]
    ELSE IF s = EndLine(b) THEN [at |-> "endcase", p |-> Len(b) + 1]
    ELSE [at |-> "seg", p |-> 0]

\* switch(ps->state) { case 0: ... case LINENO: ... }  -- the label reached.
\* A value that is no case label skips the whole switch statement.
Dispatch(s, b) ==
    IF s = 0 THEN [at |-> "seg", p |-> 0]
    ELSE IF \E p \in Labels(b) : s = LINENO(p)
         THEN [at |-> "case", p |-> CHOOSE p \in Labels(b) : s = LINENO(p)]
    ELSE IF s = EndLine(b) THEN [at |-> "endcase", p |-> Len(b) + 1]
    ELSE [at |-> "out", p |-> 0]

\* The ordinary code of segment k.
Segment(m, k) == [m EXCEPT !.trace = Append(@, k), !.ran = Append(@, k)]

\* Variant: the yield does not record its own line.
YieldSetNoMark(m, p) == [m EXCEPT !.ps.yield = TRUE]

\* Variant: the yield records the line after its own.
YieldSetNextLine(m, p) ==
    [m EXCEPT !.ps.yield = TRUE, !.ps.state = LINENO(p) + 1]

\* PROTO_YIELD: ps->yield = true; ps->state = LINENO;
YieldSet(m, p) == [m EXCEPT !.ps.yield = TRUE, !.ps.state = LINENO(p)]

\* The distance between neighbouring floats at magnitude a >= 0, in ticks.
RECURSIVE Ulp(_)
Ulp(a) == IF a < 2 ^ Mantissa THEN 1 ELSE 2 * Ulp(a \div 2)

\* float time: the float nearest to x ticks, ties going to the even
\* significand.
Float(x) ==
    LET a == IF x < 0 THEN 0 - x ELSE x
        u == Ulp(a)
        q == a \div u
        r == a % u
        n == IF 2 * r > u \/ (2 * r = u /\ q % 2 = 1) THEN q + 1 ELSE q
    IN  IF x < 0 THEN 0 - n * u ELSE n * u

\* Variant: the duration is added to what the last sleep left behind.
SleepInitCarry(m, t) == [m EXCEPT !.ps.time = @ + t]

\* PROTO_SLEEP(t): for (ps->time = t; ...
SleepInit(m, t) == [m EXCEPT !.ps.time = Float(t)]

\* Variant: the loop goes on while ps->time >= 0.
SleepCondInclusive(m) == m.ps.time >= 0

\* PROTO_SLEEP(t): ...; ps->time > 0; ...
SleepCond(m) == m.ps.time > 0

\* Variant: the countdown stops at zero.
SleepStepClamped(m, d) ==
    [m EXCEPT !.ps.time = IF @ - d < 0 THEN 0 ELSE @ - d]

\* PROTO_SLEEP(t): ...; ps->time -= Timer::GetElapsedTime())
SleepStep(m, d) == [m EXCEPT !.ps.time = Float(@ - d)]

\* Variant: the loop goes on while the condition holds.
WaitCondPlain(c) == c

\* PROTO_WAIT(c): while (!(c))
WaitCond(c) == ~c

\* Variant: the end rewinds the function to its start.
EndSetRewind(m, b) == [m EXCEPT !.ps.state = 0]

\* PROTO_END: ps->state = LINENO;
EndSet(m, b) == [m EXCEPT !.ps.state = EndLine(b)]

\* The input point p sees when its loop condition is evaluated.
Observe(m, p, x) == [m EXCEPT !.log[p] = Append(@, x)]

Return(m, v) == [m EXCEPT !.ret = v]

\* Variant: the flag is lowered again before the function returns false.
ReturnFalseLowered(m, p) ==
    [m EXCEPT !.ret = "false", !.susp[p] = @ + 1, !.last = p,
              !.ps.yield = FALSE]

\* PROTO_YIELD: if (ps->yield) return false;
ReturnFalseAt(m, p) ==
    [m EXCEPT !.ret = "false", !.susp[p] = @ + 1, !.last = p]

\* return <value>; written in the body: the ProtoState is left as it is.
PlainReturn(m) == Return(m, "return")

\* ---------------------------------------------------------- the body
\* Execution of the expanded body from a place in it to the return, given
\* the clock's elapsed time d for this call and the set cs of wait points
\* and return statements whose condition is true during this call.
RECURSIVE Exec(_, _, _, _, _, _)
Exec(m, at, p, b, d, cs) ==
    CASE at = "seg" ->
            IF p < Len(b) THEN Exec(Segment(m, p), "reach", p + 1, b, d, cs)
            ELSE Exec(Segment(m, p), "end", p + 1, b, d, cs)
      [] at = "reach" ->
            IF b[p].kind = "yield" THEN Exec(m, "yield", p, b, d, cs)
            ELSE IF b[p].kind = "wait" THEN Exec(m, "test", p, b, d, cs)
            ELSE IF b[p].kind = "return"
                 THEN IF p \in cs THEN PlainReturn(m)
                      ELSE Exec(m, "seg", p, b, d, cs)
            ELSE Exec(SleepInit(m, b[p].t), "test", p, b, d, cs)
      [] at = "test" ->
            IF b[p].kind = "wait"
            THEN IF WaitCond(p \in cs)
                 THEN Exec(Observe(m, p, p \in cs), "yield", p, b, d, cs)
                 ELSE Exec(Observe(m, p, p \in cs), "seg", p, b, d, cs)
            ELSE IF SleepCond(m)
                 THEN Exec(Observe(m, p, d), "yield", p, b, d, cs)
                 ELSE Exec(Observe(m, p, d), "seg", p, b, d, cs)
      [] at = "yield" -> Exec(YieldSet(m, p), "case", p, b, d, cs)
      [] at = "case" ->
            IF m.ps.yield THEN ReturnFalseAt(m, p)
            ELSE IF b[p].kind = "yield" THEN Exec(m, "seg", p, b, d, cs)
            ELSE IF b[p].kind = "wait" THEN Exec(m, "test", p, b, d, cs)
            ELSE Exec(SleepStep(m, d), "test", p, b, d, cs)
      [] at = "end" -> Exec(EndSet(m, b), "endcase", p, b, d, cs)
      [] at = "endcase" -> Return(m, "true")
      [] at = "out" -> Return(m, "true")

\* Variant: the code meant to run on every call is written after PROTO_BEGIN,
\* under case 0.
BodyPreludeInside(m, b, d, cs) ==
    LET m1 == BeginReset(m)
        lab == Dispatch(m1.ps.state, b)
    IN  IF lab.at = "seg" /\ lab.p = 0
        THEN Exec(Prelude(m1), lab.at, lab.p, b, d, cs)
        ELSE Exec(m1, lab.at, lab.p, b, d, cs)

\* bool myfunc (ProtoState* ps, void* vars): one call.
Body(m, b, d, cs) ==
    LET m1 == BeginReset(Prelude(m))
        lab == Dispatch(m1.ps.state, b)
    IN  Exec(m1, lab.at, lab.p, b, d, cs)

WaitPoints(b) == {p \in 1..Len(b) : b[p].kind = "wait"}

\* The points of b that test a condition of the caller's.
CondPoints(b) == {p \in 1..Len(b) : b[p].kind \in {"wait", "return"}}

\* ----------------------------------------------------------- ProtoThread
\* The values of a byte that the model tells apart.
Byte == {0, 1}

Thread == 1..MaxThreads

\* Addresses: 0 is nullptr, SrcAddr holds the caller's variables, the rest
\* is what operator new hands out.
SrcAddr == 1

Addr == 1..(MaxThreads + 1)

ZeroBytes == [k \in 1..MaxSize |-> 0]

NoBuffer == [live |-> FALSE, bytes |-> <<>>]

NoThread == [made |-> FALSE, function |-> 0, state |-> NewProtoState, vars |-> 0]

\* memcpy (vars, _vars, var_size) into the buffer at a.
Memcpy(h, a, from, size) ==
    [h EXCEPT ![a] = [live |-> TRUE, bytes |-> SubSeq(h[from].bytes, 1, size)]]

\* Variant: the constructor keeps the caller's pointer.
ConstructAliased(h, a, given, from, size) ==
    [mem |-> h, vars |-> IF given THEN from ELSE 0]

\* ProtoThread::ProtoThread: vars = nullptr;
\* if (_vars) { vars = new char[var_size]; memcpy (vars, _vars, var_size); }
\* with a the address operator new returns.
Construct(h, a, given, from, size) ==
    IF given THEN [mem |-> Memcpy(h, a, from, size), vars |-> a]
    ELSE [mem |-> h, vars |-> 0]

\* ------------------------------------------------------------- actions
NotReset == [on |-> FALSE, from |-> NewProtoState, inp |-> <<>>, out |-> <<>>]

\* What a call with inputs d, cs that came to m adds to the record x.
Noted(x, d, cs, m) ==
    IF x.on
    THEN [x EXCEPT !.inp = Append(@, [d |-> d, cs |-> cs]),
                   !.out = Append(@, [ran |-> m.ran, ret |-> m.ret])]
    ELSE x

InitWith(L, n, B, f) ==
    /\ body \in B
    /\ live = L
    /\ limit = n
    /\ ps = [i \in Inst |-> NewProtoState]
    /\ trace = [i \in Inst |-> <<>>]
    /\ ret = [i \in Inst |-> "none"]
    /\ calls = [i \in Inst |-> 0]
    /\ pre = [i \in Inst |-> 0]
    /\ entry = [i \in Inst |-> 0]
    /\ ran = [i \in Inst |-> <<>>]
    /\ log = [i \in Inst |-> [p \in 1..Len(body) |-> <<>>]]
    /\ susp = [i \in Inst |-> [p \in 1..Len(body) |-> 0]]
    /\ writes = [i \in Inst |-> 0]
    /\ last = [i \in Inst |-> 0]
    /\ form = f
    /\ since = [i \in Inst |-> NotReset]
    /\ beat = 0

\* No ProtoThread yet; the caller's variables hold bytes drawn from S.
InitHeap(S) ==
    /\ \E src \in S :
          mem = [a \in Addr |-> IF a = SrcAddr
                                THEN [live |-> TRUE, bytes |-> src]
                                ELSE NoBuffer]
    /\ obj = [o \in Thread |-> NoThread]
    /\ own = [o \in Thread |-> [given |-> FALSE, size |-> 0, bytes |-> <<>>]]
    /\ rel = [a \in Addr |-> 0]

\* The driver calls instance i; the clock reports d, the conditions in cs hold.
Call(i, d, cs) ==
    /\ i \in live
    /\ calls[i] < limit
    /\ LET m == Body(Machine(i), body, d, cs)
       IN  /\ ps' = [ps EXCEPT ![Slot(i)] = m.ps]
           /\ ran' = [ran EXCEPT ![i] = m.ran]
           /\ trace' = [trace EXCEPT ![i] = m.trace]
           /\ ret' = [ret EXCEPT ![i] = m.ret]
           /\ pre' = [pre EXCEPT ![i] = m.pre]
           /\ log' = [log EXCEPT ![i] = m.log]
           /\ susp' = [susp EXCEPT ![i] = m.susp]
           /\ last' = [last EXCEPT ![i] = m.last]
           /\ since' = [since EXCEPT ![i] = Noted(@, d, cs, m)]
    /\ calls' = [calls EXCEPT ![i] = @ + 1]
    /\ entry' = [entry EXCEPT ![i] = ps[Slot(i)].state]
    /\ UNCHANGED <<body, live, limit, writes, form>>
    /\ UNCHANGED <<heap, beat>>

\* A driver that calls instance i for as long as the function has not
\* returned true, and keeps no count of its calls.
Poll(i, d, cs) ==
    /\ i \in live
    /\ ret[i] # "true"
    /\ LET m == Body(Machine(i), body, d, cs)
       IN  /\ ps' = [ps EXCEPT ![Slot(i)] = m.ps]
           /\ ran' = [ran EXCEPT ![i] = m.ran]
           /\ trace' = [trace EXCEPT ![i] = m.trace]
           /\ ret' = [ret EXCEPT ![i] = m.ret]
           /\ last' = [last EXCEPT ![i] = m.last]
    /\ entry' = [entry EXCEPT ![i] = ps[Slot(i)].state]
    /\ beat' = 1 - beat
    /\ UNCHANGED <<body, live, limit, calls, pre, log, susp, writes, form, since>>
    /\ UNCHANGED heap

\* The owner of the ProtoState writes its public member state.
ExternalSet(i, v) ==
    /\ i \in live
    /\ writes[i] < MaxWrites
    /\ ps[i].state # v
    /\ ps' = [ps EXCEPT ![i].state = v]
    /\ writes' = [writes EXCEPT ![i] = @ + 1]
    /\ UNCHANGED <<body, live, limit, trace, ret, calls, pre, entry, ran, log, susp,
                   last, form, since>>
    /\ UNCHANGED <<heap, beat>>

\* The owner of the ProtoState writes its public member yield.
SetYield(i, y) ==
    /\ i \in live
    /\ writes[i] < MaxWrites
    /\ ps[i].yield # y
    /\ ps' = [ps EXCEPT ![i].yield = y]
    /\ writes' = [writes EXCEPT ![i] = @ + 1]
    /\ since' = [since EXCEPT ![i] = [NotReset EXCEPT !.from = ps[i]]]
    /\ UNCHANGED <<body, live, limit, trace, ret, calls, pre, entry, ran, log, susp,
                   last, form>>
    /\ UNCHANGED <<heap, beat>>

\* The owner of the ProtoState restarts the function between two calls:
\* ps->state = 0, time and yield left as they are.
Reset(i) ==
    /\ i \in live
    /\ writes[i] < MaxWrites
    /\ ps[i].state # 0
    /\ ps' = [ps EXCEPT ![i].state = 0]
    /\ writes' = [writes EXCEPT ![i] = @ + 1]
    /\ since' = [since EXCEPT ![i] = [NotReset EXCEPT !.on = TRUE, !.from = ps[i]]]
    /\ UNCHANGED <<body, live, limit, trace, ret, calls, pre, entry, ran, log, susp,
                   last, form>>
    /\ UNCHANGED <<heap, beat>>

\* new ProtoThread(f, _vars, var_size), _vars being the caller's variables
\* or nullptr.
New(o, f, given, size) ==
    /\ ~obj[o].made
    /\ given => size <= Len(mem[SrcAddr].bytes)
    /\ \E a \in Addr :
          /\ ~mem[a].live
          /\ LET c == Construct(mem, a, given, SrcAddr, size)
             IN  /\ mem' = c.mem
                 /\ rel' = IF given THEN [rel EXCEPT ![a] = 0] ELSE rel
                 /\ obj' = [obj EXCEPT ![o] =
                               [made |-> TRUE, function |-> f,
                                state |-> NewProtoState, vars |-> c.vars]]
    /\ own' = [own EXCEPT ![o] =
                  [given |-> given, size |-> size,
                   bytes |-> IF given THEN SubSeq(mem[SrcAddr].bytes, 1, size)
                             ELSE <<>>]]
    /\ UNCHANGED <<run, beat>>

\* The caller writes one of its own variables.
WriteSource(k, v) ==
    /\ k \in 1..Len(mem[SrcAddr].bytes)
    /\ mem[SrcAddr].bytes[k] # v
    /\ mem' = [mem EXCEPT ![SrcAddr].bytes[k] = v]
    /\ UNCHANGED <<obj, own, rel>>
    /\ UNCHANGED <<run, beat>>

\* The function of o writes through the vars pointer it is passed.
WriteVars(o, k, v) ==
    /\ obj[o].made
    /\ obj[o].vars # 0
    /\ k \in 1..Len(mem[obj[o].vars].bytes)
    /\ mem[obj[o].vars].bytes[k] # v
    /\ mem' = [mem EXCEPT ![obj[o].vars].bytes[k] = v]
    /\ own' = [own EXCEPT ![o].bytes[k] = v]
    /\ UNCHANGED <<obj, rel>>
    /\ UNCHANGED <<run, beat>>

\* ProtoThread o(u): the class declares no copy constructor, so the
\* compiler's copies function, state and vars member by member.
Copy(o, u) ==
    /\ ~obj[o].made
    /\ obj[u].made
    /\ obj' = [obj EXCEPT ![o] = obj[u]]
    /\ own' = [own EXCEPT ![o] = own[u]]
    /\ UNCHANGED <<mem, rel>>
    /\ UNCHANGED <<run, beat>>

\* o = u: the class declares no assignment operator, so the compiler's
\* assigns function, state and vars member by member.
Assign(o, u) ==
    /\ obj[o].made
    /\ obj[u].made
    /\ o # u
    /\ obj[o] # obj[u]
    /\ obj' = [obj EXCEPT ![o] = obj[u]]
    /\ own' = [own EXCEPT ![o] = own[u]]
    /\ UNCHANGED <<mem, rel>>
    /\ UNCHANGED <<run, beat>>

\* delete of the buffer at a.
Release(h, a) == [h EXCEPT ![a] = NoBuffer]

\* ProtoThread::~ProtoThread: if (vars) delete vars;
\* The function is not called and the ProtoState is not looked at.
Destroy(o) ==
    /\ obj[o].made
    /\ obj[o].vars # 0 => rel[obj[o].vars] < MaxDeletes
    /\ IF obj[o].vars # 0
       THEN /\ mem' = Release(mem, obj[o].vars)
            /\ rel' = [rel EXCEPT ![obj[o].vars] = @ + 1]
       ELSE UNCHANGED <<mem, rel>>
    /\ obj' = [obj EXCEPT ![o] = NoThread]
    /\ UNCHANGED own
    /\ UNCHANGED <<run, beat>>

Drive == \E i \in Inst, d \in 0..MaxElapsed, cs \in SUBSET CondPoints(body) : Call(i, d, cs)

Init == InitWith({1}, MaxCalls, Bodies, "param") /\ InitHeap({ZeroBytes})

Next == Drive

Spec == Init /\ [][Next]_vars

\* Two instances of the body, each with its own ProtoState, called in any
\* order.
InitPair == InitWith({1, 2}, MaxPairCalls, PairBodies, "param") /\ InitHeap({ZeroBytes})

SpecPair == InitPair /\ [][Next]_vars

\* Two callers of a function that declares its ProtoState with PROTO_STATE.
InitShared == InitWith({1, 2}, MaxPairCalls, SharedBodies, "static") /\ InitHeap({ZeroBytes})

SpecShared == InitShared /\ [][Next]_vars

\* One instance whose owner also writes ProtoState.state between calls.
InitExt == InitWith({1}, MaxExtCalls, PairBodies, "param") /\ InitHeap({ZeroBytes})

Tamper == \E i \in Inst, v \in {0} \cup (FirstLine..(EndLine(body) + 1)) : ExternalSet(i, v)

NextExt == Drive \/ Tamper

SpecExt == InitExt /\ [][NextExt]_vars

\* One instance whose owner may restart it between calls.
InitReset == InitWith({1}, MaxResetCalls, PairBodies, "param") /\ InitHeap({ZeroBytes})

Restart == \E i \in Inst : Reset(i)

NextReset == Drive \/ Restart

SpecReset == InitReset /\ [][NextReset]_vars

\* One instance whose owner also writes ProtoState.yield between calls.
InitFlag == InitWith({1}, MaxExtCalls, PairBodies, "param") /\ InitHeap({ZeroBytes})

Flip == \E i \in Inst, y \in BOOLEAN : SetYield(i, y)

NextFlag == Drive \/ Flip

SpecFlag == InitFlag /\ [][NextFlag]_vars

\* One instance called again and again until it returns true, the clock
\* advancing by at least one tick between calls.
InitLive == InitWith({1}, 0, LiveBodies, "param") /\ InitHeap({ZeroBytes})

NextLive == \E i \in Inst, d \in 1..MaxElapsed : Poll(i, d, {})

SpecLive == InitLive /\ [][NextLive]_vars /\ WF_vars(NextLive)

\* One instance of a body that also returns through statements of its own.
InitRet == InitWith({1}, MaxRetCalls, RetBodies, "param") /\ InitHeap({ZeroBytes})

SpecRet == InitRet /\ [][Next]_vars

\* ProtoThread objects constructed from the caller's variables.
InitThread == InitWith({}, 0, {<<>>}, "param") /\ InitHeap([1..MaxSize -> Byte])

Build == \E o \in Thread, f \in {1}, given \in BOOLEAN, size \in 0..MaxSize :
            New(o, f, given, size)

Store ==
    \/ \E k \in 1..MaxSize, v \in Byte : WriteSource(k, v)
    \/ \E o \in Thread, k \in 1..MaxSize, v \in Byte : WriteVars(o, k, v)

NextThread == Build \/ Store

SpecThread == InitThread /\ [][NextThread]_vars

\* ProtoThread objects constructed, copied, assigned and destroyed.
Duplicate ==
    \/ \E o, u \in Thread : Copy(o, u)
    \/ \E o, u \in Thread : Assign(o, u)

Dispose == \E o \in Thread : Destroy(o)

NextOwn == Build \/ Duplicate \/ Dispose

InitOwn == InitWith({}, 0, {<<>>}, "param") /\ InitHeap({ZeroBytes})

SpecOwn == InitOwn /\ [][NextOwn]_vars

\* ------------------------------------------------------------- helpers
AllYield(b) == \A p \in 1..Len(b) : b[p].kind = "yield"

SleepPoints(b) == {p \in 1..Len(b) : b[p].kind = "sleep"}

\* <<0, 1, ..., k-1>>
UpTo(k) == [x \in 1..k |-> x - 1]

\* Segment p has been executed: execution went past point p.
Passed(i, p) == \E x \in 1..Len(trace[i]) : trace[i][x] = p

RECURSIVE SumSeq(_)
SumSeq(q) == IF q = <<>> THEN 0 ELSE Head(q) + SumSeq(Tail(q))

\* The increments the countdown of sleep p has subtracted: those of the
\* steps after the one that reached it.
Consumed(i, p) == IF log[i][p] = <<>> THEN <<>> ELSE Tail(log[i][p])

\* The sleep evaluated most recently by instance i, if there is one.
LatestSleep(i, p) ==
    /\ p \in SleepPoints(body)
    /\ log[i][p] # <<>>
    /\ \A q \in SleepPoints(body) : q > p => log[i][q] = <<>>

\* ------------------------------------------------------------- claims
\* C1: a body of n plain yields, driven from a fresh ProtoState: call k <= n
\* executes exactly segment k-1 and returns false, call n+1 executes exactly
\* segment n and returns true, every later call returns true and executes
\* nothing; so the segments run once each, in order.
C1_ResumeInOrder ==
    \A i \in live :
        AllYield(body) =>
            LET n == Len(body)
                k == calls[i]
            IN  /\ k = 0 => trace[i] = <<>> /\ ret[i] = "none"
                /\ (1 <= k /\ k <= n) =>
                        /\ trace[i] = UpTo(k)
                        /\ ran[i] = <<k - 1>>
                        /\ ret[i] = "false"
                /\ k = n + 1 =>
                        /\ trace[i] = UpTo(n + 1)
                        /\ ran[i] = <<n>>
                        /\ ret[i] = "true"
                /\ k > n + 1 =>
                        /\ trace[i] = UpTo(n + 1)
                        /\ ran[i] = <<>>
                        /\ ret[i] = "true"

C1_Witness ==
    /\ AllYield(body)
    /\ Len(body) >= 2
    /\ calls[1] >= Len(body) + 2
    /\ ret[1] = "true"

\* C2: once a call has returned true at PROTO_END, every later call returns
\* true, executes no segment and leaves state, time and yield as they were,
\* state being the terminal marker.
C2_TerminalIdempotent ==
    [][\A i \in Inst :
          (ret[i] = "true" /\ calls'[i] # calls[i]) =>
              /\ ret'[i] = "true"
              /\ ran'[i] = <<>>
              /\ trace'[i] = trace[i]
              /\ ps'[i] = ps[i]
              /\ ps[i].state = EndLine(body)]_vars

C2_Witness ==
    /\ Len(body) >= 1
    /\ calls[1] >= 3
    /\ entry[1] = EndLine(body)
    /\ ret[1] = "true"

\* C4: PROTO_WAIT(c) evaluates c once in every call that reaches or resumes
\* it; it returns false on exactly the evaluations that find c false, and on
\* the first that finds c true execution goes on into the next segment in
\* that same call; no suspension at all if that is the first evaluation.
C4_WaitSuspends ==
    \A i \in live : \A p \in WaitPoints(body) :
        LET l == log[i][p]
        IN  /\ \A x \in 1..(Len(l) - 1) : l[x] = FALSE
            /\ susp[i][p] = Cardinality({x \in 1..Len(l) : ~l[x]})
            /\ Passed(i, p) <=> (l # <<>> /\ l[Len(l)])
            /\ (l # <<>> /\ ~l[Len(l)]) =>
                    /\ ret[i] = "false"
                    /\ ps[i].state = LINENO(p)

C4_Witness ==
    \E p, q \in WaitPoints(body) :
        /\ log[1][p] = <<TRUE>>
        /\ susp[1][p] = 0
        /\ log[1][q] = <<FALSE, FALSE, TRUE>>
        /\ susp[1][q] = 2
        /\ Passed(1, p)
        /\ Passed(1, q)

\* C5 as stated: with d_1 the clock value of the call that reaches the sleep
\* and d_i that of the i-th step, the sleep is passed at the first step j at
\* which d_1 + ... + d_j >= t and returns false at every step before.
C5_AsStated ==
    \A i \in live : \A p \in SleepPoints(body) :
        LET l == log[i][p]
        IN  l # <<>> =>
                /\ Passed(i, p) <=> SumSeq(l) >= body[p].t
                /\ susp[i][p] = IF Passed(i, p) THEN Len(l) - 1 ELSE Len(l)

\* What is left of float t after the increments c have been subtracted
\* from it one by one, each difference rounded to a float.
RECURSIVE Remaining(_, _)
Remaining(t, c) ==
    IF c = <<>> THEN Float(t)
    ELSE Float(Remaining(t, SubSeq(c, 1, Len(c) - 1)) - c[Len(c)])

\* C5 amended: the step that reaches PROTO_SLEEP(t) does not read the clock:
\* it returns false if t > 0 and passes if t <= 0.  Each later step i >= 2
\* subtracts its clock value d_i, in float arithmetic; the sleep is passed
\* at the first step j >= 2 at which t - d_2 - ... - d_j so computed is
\* <= 0 and returns false at every step before it.
C5_SleepCountdown ==
    \A i \in live : \A p \in SleepPoints(body) :
        LET l == log[i][p]
            t == body[p].t
            c == Consumed(i, p)
        IN  l # <<>> =>
                /\ Passed(i, p) <=>
                        (t <= 0 \/ (Len(l) >= 2 /\ Remaining(t, c) <= 0))
                /\ susp[i][p] = IF Passed(i, p) THEN Len(l) - 1 ELSE Len(l)
                /\ (t > 0 /\ Len(l) >= 2) =>
                        Remaining(t, SubSeq(c, 1, Len(c) - 1)) > 0
                /\ t <= 0 => Len(l) = 1
                /\ ~Passed(i, p) =>
                        /\ ret[i] = "false"
                        /\ ps[i].state = LINENO(p)

C5_Witness ==
    \E p \in SleepPoints(body) :
        /\ body[p].t > 0
        /\ Len(log[1][p]) = 3
        /\ log[1][p][1] >= body[p].t
        /\ Passed(1, p)
        /\ susp[1][p] = 2

\* C6 as stated: when a sleep completes, ProtoState.time holds the sum of
\* the increments it consumed minus t, a value >= 0.
C6_AsStated ==
    \A i \in live : \A p \in SleepPoints(body) :
        (LatestSleep(i, p) /\ Passed(i, p)) =>
            /\ ps[i].time = SumSeq(Consumed(i, p)) - body[p].t
            /\ ps[i].time >= 0

\* C6 amended: when PROTO_SLEEP(t) completes, ProtoState.time holds t minus
\* the increments the sleep consumed, subtracted one by one in float
\* arithmetic, a value <= 0: the surplus with its sign reversed.
C6_ResidualNegated ==
    \A i \in live : \A p \in SleepPoints(body) :
        (LatestSleep(i, p) /\ Passed(i, p)) =>
            /\ ps[i].time = Remaining(body[p].t, Consumed(i, p))
            /\ ps[i].time <= 0

C6_Witness ==
    \E p \in SleepPoints(body) :
        /\ LatestSleep(1, p)
        /\ Passed(1, p)
        /\ SumSeq(Consumed(1, p)) > body[p].t
        /\ body[p].t > 0

\* C3: two instances of one body, each with its own ProtoState, called in
\* any interleaving: what an instance has executed and returned depends on
\* its own calls and the inputs they saw, never on the calls of the other;
\* a body of n plain yields ends on each instance's own call n+1.
C3_InstancesIndependent ==
    /\ \A i, j \in live :
            (calls[i] = calls[j] /\ log[i] = log[j]) =>
                /\ ps[i] = ps[j]
                /\ trace[i] = trace[j]
                /\ ran[i] = ran[j]
                /\ ret[i] = ret[j]
                /\ susp[i] = susp[j]
    /\ \A i \in live :
            AllYield(body) =>
                /\ trace[i] = UpTo(IF calls[i] <= Len(body) THEN calls[i]
                                   ELSE Len(body) + 1)
                /\ ret[i] = IF calls[i] = 0 THEN "none"
                            ELSE IF calls[i] <= Len(body) THEN "false"
                            ELSE "true"

C3_Witness ==
    /\ live = {1, 2}
    /\ AllYield(body)
    /\ Len(body) = 1
    /\ calls[1] = 2
    /\ ret[1] = "true"
    /\ trace[1] = <<0, 1>>
    /\ calls[2] = 1
    /\ ret[2] = "false"
    /\ trace[2] = <<0>>

\* How far sleep p of instance i went beyond its duration.
Overshoot(i, p) == SumSeq(Consumed(i, p)) - body[p].t

\* PROTO_SLEEP(t) entered with a newly constructed ProtoState and given the
\* increments c after the step that reaches it: whether it is passed, how
\* often it returns false, the countdown left, the increments not used.
RECURSIVE Countdown(_, _, _)
Countdown(m, c, n) ==
    IF ~SleepCond(m)
    THEN [passed |-> TRUE, susp |-> n, time |-> m.ps.time, rest |-> c]
    ELSE IF c = <<>>
    THEN [passed |-> FALSE, susp |-> n + 1, time |-> m.ps.time, rest |-> c]
    ELSE Countdown(SleepStep(m, Head(c)), Tail(c), n + 1)

SleepAlone(t, c) == Countdown(SleepInit([ps |-> NewProtoState], t), c, 0)

\* C7: what one sleep leaves behind does not reach the next: a sleep that
\* follows another suspends and proceeds, and counts down, exactly as the
\* same sleep does on a new ProtoState given the increments supplied since
\* it was reached, however far the earlier sleep overshot.
C7_OvershootNotCarried ==
    \A i \in live : \A p \in SleepPoints(body) :
        (log[i][p] # <<>> /\ \E q \in SleepPoints(body) : q < p) =>
            LET r == SleepAlone(body[p].t, Consumed(i, p))
            IN  /\ Passed(i, p) = r.passed
                /\ susp[i][p] = r.susp
                /\ r.rest = <<>>
                /\ LatestSleep(i, p) => ps[i].time = r.time

C7_Witness ==
    \E q, p \in SleepPoints(body) :
        /\ q < p
        /\ Passed(1, q)
        /\ Overshoot(1, q) > 0
        /\ body[p].t > 0
        /\ Len(log[1][p]) >= 2
        /\ Passed(1, p)

\* A value of ProtoState.state that is no case label of the body.
Unmatched(s) ==
    /\ s # 0
    /\ s # EndLine(body)
    /\ \A p \in 1..Len(body) : s # LINENO(p)

\* C9 as stated: a call entered with a state that is neither a suspension
\* point's marker nor the terminal marker enters segment S0, as with 0.
C9_AsStated ==
    \A i \in live :
        (calls[i] > 0 /\ Unmatched(entry[i])) =>
            (ran[i] # <<>> /\ ran[i][1] = 0)

\* C9 amended: a call entered with a state that is not 0, no suspension
\* point's marker and not the terminal marker is not treated like 0: the
\* switch is skipped, so the call executes no segment and returns true,
\* leaving state and time as they were and yield false.
C9_UnmatchedSkipsBody ==
    [][\A i \in Inst :
          (calls'[i] # calls[i] /\ Unmatched(ps[i].state)) =>
              /\ ret'[i] = "true"
              /\ ran'[i] = <<>>
              /\ trace'[i] = trace[i]
              /\ ps'[i] = [ps[i] EXCEPT !.yield = FALSE]]_vars

C9_Witness ==
    /\ calls[1] >= 2
    /\ trace[1] # <<>>
    /\ Unmatched(entry[1])
    /\ ran[1] = <<>>
    /\ ret[1] = "true"
    /\ ps[1].state = entry[1]

\* C10: a ProtoThread constructed from a non-null pointer and a size owns a
\* buffer of that size, apart from the caller's and from every other
\* ProtoThread's, holding the bytes it was given except where its own
\* function rewrote them; one constructed from nullptr has no buffer,
\* whatever the size.
C10_PrivateCopy ==
    /\ \A o \in Thread :
          obj[o].made =>
              IF own[o].given
              THEN /\ obj[o].vars \in Addr \ {SrcAddr}
                   /\ mem[obj[o].vars].live
                   /\ Len(mem[obj[o].vars].bytes) = own[o].size
                   /\ mem[obj[o].vars].bytes = own[o].bytes
                   /\ \A u \in Thread \ {o} :
                          obj[u].made => obj[u].vars # obj[o].vars
              ELSE obj[o].vars = 0
    /\ Cardinality({a \in Addr : mem[a].live}) =
          1 + Cardinality({o \in Thread : obj[o].made /\ own[o].given})

C10_Witness ==
    \E o, u, n \in Thread :
        /\ obj[o].made /\ obj[u].made /\ obj[n].made
        /\ own[o].given /\ own[o].size = MaxSize
        /\ own[u].given /\ own[u].size = MaxSize
        /\ ~own[n].given /\ own[n].size > 0
        /\ obj[n].vars = 0
        /\ mem[obj[o].vars].bytes # mem[obj[u].vars].bytes
        /\ mem[obj[o].vars].bytes # mem[SrcAddr].bytes

\* C8: the code before PROTO_BEGIN has run exactly once per call made,
\* whether the call entered at 0, at a suspension point's marker or at the
\* terminal marker.
C8_PreludeEveryCall ==
    \A i \in live : pre[i] = calls[i]

C8_Witness ==
    /\ Len(body) >= 1
    /\ body[1].kind = "yield"
    /\ entry[1] = EndLine(body)
    /\ calls[1] >= 3
    /\ pre[1] = calls[1]

\* Segment k is the first of the segments r that a call executed.
StartsWith(r, k) == r # <<>> /\ r[1] = k

\* C11 as stated: the call that follows a return statement of the body
\* commences immediately after the suspension point that last returned
\* false, or at segment 0 if none has: the segment after that point is the
\* first thing it executes.
C11_AsStated ==
    [][\A i \in Inst :
          (ret[i] = "return" /\ calls'[i] # calls[i]) =>
              StartsWith(ran'[i], last[i])]_vars

\* C11: a return statement of the body leaves state at the marker of the
\* suspension point that last returned false (0 if none has), and the next
\* call enters at that point's case label exactly as a resumption does: it
\* goes straight on into the following segment after a PROTO_YIELD, after a
\* PROTO_SLEEP (whose countdown is at or below zero already) and at
\* segment 0, but a PROTO_WAIT evaluates its condition again and returns
\* false once more, executing nothing, if it is false.
C11_ResumesAtLastYield ==
    [][\A i \in Inst :
          (ret[i] = "return" /\ calls'[i] # calls[i]) =>
              LET p == last[i]
              IN  /\ ps[i].state = IF p = 0 THEN 0 ELSE LINENO(p)
                  /\ entry'[i] = ps[i].state
                  /\ (p = 0 \/ body[p].kind \in {"yield", "sleep"}) =>
                          StartsWith(ran'[i], p)
                  /\ (p # 0 /\ body[p].kind = "wait") =>
                          /\ Len(log'[i][p]) = Len(log[i][p]) + 1
                          /\ IF log'[i][p][Len(log'[i][p])]
                             THEN StartsWith(ran'[i], p)
                             ELSE /\ ran'[i] = <<>>
                                  /\ ret'[i] = "false"
                                  /\ ps'[i].state = LINENO(p)]_vars

\* A wait that had been passed is suspended in again: the call after a
\* return statement found its condition false.
C11_Witness ==
    \E p \in WaitPoints(body) :
        /\ last[1] = p
        /\ ret[1] = "false"
        /\ ran[1] = <<>>
        /\ Passed(1, p)

\* C12 as stated: whenever no call is in progress, before the first call and
\* after any call has returned, ProtoState.yield is false.
C12_AsStated == \A i \in live : ps[i].yield = FALSE

\* C12: between calls ProtoState.yield is true exactly when the latest call
\* returned false through a suspension macro; it is false before the first
\* call and after a call that returned true.
C12_YieldFlagBetweenCalls ==
    \A i \in live :
        /\ ps[i].yield <=> ret[i] = "false"
        /\ calls[i] = 0 => ~ps[i].yield

\* The flag has been seen both ways between calls: the latest call ended
\* the function, an earlier one had left the flag up.
C12_Witness ==
    /\ ret[1] = "true"
    /\ ~ps[1].yield
    /\ \E p \in 1..Len(body) : susp[1][p] > 0

\* The suspension points of the body that come before statement r.
Before(r) == {q \in Labels(body) : q < r}

\* The greatest number in the non-empty set S.
Max(S) == CHOOSE x \in S : \A y \in S : y <= x

\* The statement at which the latest call of i left through a return
\* statement: the one after the last segment it executed.
ReturnedAt(i) == ran[i][Len(ran[i])] + 1

\* Point p has been reached by i and has fallen through every time.
FellThrough(i, p) == log[i][p] # <<>> /\ susp[i][p] = 0

\* C13 as stated: every suspension point that execution reaches sets state
\* to its own marker before it returns false or falls through; so when a
\* call leaves through a return statement, state is the marker of the
\* suspension point reached last, the nearest one before that statement.
C13_AsStated ==
    \A i \in live :
        (ret[i] = "return" /\ Before(ReturnedAt(i)) # {}) =>
            ps[i].state = LINENO(Max(Before(ReturnedAt(i))))

\* C13: a suspension point sets state to its own marker exactly when it
\* returns false; a PROTO_WAIT whose condition is true or a PROTO_SLEEP
\* whose time is not above zero falls through without writing state.  So
\* between calls state is the marker of the point that returned false most
\* recently (0 if none has), or the marker of PROTO_END once that is
\* reached, and never the marker of a point that has only fallen through.
C13_MarkerSetOnSuspension ==
    \A i \in live :
        /\ ps[i].state = IF ret[i] = "true" THEN EndLine(body)
                         ELSE IF last[i] = 0 THEN 0
                         ELSE LINENO(last[i])
        /\ \A p \in Labels(body) :
              FellThrough(i, p) => ps[i].state # LINENO(p)

\* A wait or a sleep has fallen through, and the call left through the
\* return statement right after it.
C13_Witness ==
    \E p \in Labels(body) :
        /\ body[p].kind \in {"wait", "sleep"}
        /\ FellThrough(1, p)
        /\ ret[1] = "return"
        /\ ReturnedAt(1) = p + 1

\* Calls made so far by both callers together.
Total == calls[1] + calls[2]

\* C14: two callers of a body whose ProtoState is shared advance one resume
\* marker.  A call by either caller enters where the previous call by
\* either left the marker and leaves the other ProtoState alone; for a body
\* of n plain yields the k-th call overall executes segment k-1, returning
\* false while k <= n and true from the (n+1)-th call overall on, whoever
\* makes it: what a caller executes depends on the other's call count.
C14_SharedMarker ==
    [][\A i \in Inst :
          calls'[i] # calls[i] =>
              /\ entry'[i] = ps[1].state
              /\ ps'[2] = NewProtoState
              /\ AllYield(body) =>
                    LET n == Len(body)
                        k == Total + 1
                    IN  /\ ret'[i] = IF k <= n THEN "false" ELSE "true"
                        /\ ran'[i] = IF k <= n + 1 THEN <<k - 1>> ELSE <<>>
                        /\ ps'[1].state = IF k <= n THEN LINENO(k)
                                          ELSE EndLine(body)]_vars

\* The second caller's first call ends a body of two yields, after two
\* calls by the first caller.
C14_Witness ==
    /\ AllYield(body)
    /\ Len(body) = MaxPoints
    /\ calls[1] = MaxPoints
    /\ calls[2] = 1
    /\ trace[2] = <<MaxPoints>>
    /\ ret[2] = "true"

\* A ProtoState fresh from its constructor, about to be called on body b.
FreshMachine(b) ==
    [ps |-> NewProtoState, trace |-> <<>>, ret |-> "none", pre |-> 0,
     ran |-> <<>>, log |-> [p \in 1..Len(b) |-> <<>>],
     susp |-> [p \in 1..Len(b) |-> 0], last |-> 0]

\* What the calls with inputs inp execute and return, made one after the
\* other on machine m.
RECURSIVE Replay(_, _, _)
Replay(m, inp, b) ==
    IF inp = <<>> THEN <<>>
    ELSE LET r == Body([m EXCEPT !.ran = <<>>], b, inp[1].d, inp[1].cs)
         IN  <<[ran |-> r.ran, ret |-> r.ret]>> \o Replay(r, Tail(inp), b)

\* C15: no call sets state back to 0, and after the owner has set state to
\* 0 between two calls, whatever time and yield held then, the calls that
\* follow execute the same segments and return the same values as the same
\* calls made on a ProtoState fresh from its constructor.
C15_ResetRestarts ==
    \A i \in live :
        /\ (calls[i] > 0 /\ (~since[i].on \/ since[i].inp # <<>>)) =>
                ps[i].state # 0
        /\ since[i].on =>
                since[i].out = Replay(FreshMachine(body), since[i].inp, body)

\* The function was restarted while suspended in a sleep, its flag up and
\* its countdown unfinished, and has since run through to its end.
C15_Witness ==
    /\ since[1].on
    /\ since[1].from.yield
    /\ since[1].from.time > 0
    /\ Len(since[1].inp) >= 2
    /\ SleepPoints(body) # {}
    /\ ret[1] = "true"

\* C16: after every call on a ProtoState that only calls have touched, the
\* call returned false exactly if yield is true and state is the marker of
\* the suspension point that returned false, it returned true exactly if
\* state is the marker of PROTO_END, and state is not 0.
C16_ReturnMatchesState ==
    \A i \in live :
        calls[i] > 0 =>
            /\ ret[i] \in {"false", "true"}
            /\ ret[i] = "false" <=>
                    /\ ps[i].yield
                    /\ last[i] \in Labels(body)
                    /\ ps[i].state = LINENO(last[i])
            /\ ret[i] = "false" => ran[i] = <<>> \/ ran[i][Len(ran[i])] = last[i] - 1
            /\ ret[i] = "true" <=> ps[i].state = EndLine(body)
            /\ ps[i].state # 0

\* A call has returned false at the second point of the body, and a later
\* one has returned true.
C16_Witness ==
    /\ Len(body) >= 2
    /\ last[1] = 2
    /\ entry[1] = LINENO(2)
    /\ ret[1] = "true"
    /\ ps[1].state = EndLine(body)

\* Instance i as a call sees it, with y for its yield flag.
WithYield(i, y) == [Machine(i) EXCEPT !.ps.yield = y]

\* C17: whatever ProtoState a call is made on, and whatever the clock and
\* the conditions are, the call made with yield true and the call made with
\* yield false execute the same segments, return the same value and leave
\* the same ProtoState.
C17_YieldAtEntryIgnored ==
    \A i \in live, d \in 0..MaxElapsed, cs \in SUBSET CondPoints(body) :
        LET up == Body(WithYield(i, TRUE), body, d, cs)
            down == Body(WithYield(i, FALSE), body, d, cs)
        IN  /\ up.ran = down.ran
            /\ up.ret = down.ret
            /\ up.ps = down.ps

\* The owner lowered the flag while the function was suspended, and the
\* function has since been resumed and has gone on.
C17_Witness ==
    /\ since[1].from.yield
    /\ since[1].from.state \in {LINENO(p) : p \in Labels(body)}
    /\ calls[1] >= 2
    /\ entry[1] = since[1].from.state
    /\ ran[1] # <<>>

\* The objects that exist and hold a buffer.
Holders == {o \in Thread : obj[o].made /\ obj[o].vars # 0}

\* C18: whatever is constructed, copied, assigned and destroyed, no two
\* ProtoThread objects hold the same vars buffer, no buffer is deleted
\* twice, and no object holds a buffer that has been deleted.
C18_ExclusiveOwnership ==
    /\ \A o, u \in Holders : o # u => obj[o].vars # obj[u].vars
    /\ \A a \in Addr : rel[a] <= 1
    /\ \A o \in Holders : mem[obj[o].vars].live

\* Instance i is suspended in the sleep at point p.
AsleepAt(i, p) ==
    /\ p \in SleepPoints(body)
    /\ ret[i] = "false"
    /\ last[i] = p

\* C19: the driver calling on and on and the clock advancing by at least
\* one tick between calls, every sleep the instance is suspended in is
\* eventually passed, and the function eventually returns true.
C19_SleepEventuallyPassed ==
    /\ \A p \in 1..MaxPoints : AsleepAt(1, p) ~> Passed(1, p)
    /\ <>(ret[1] = "true")
====
